---- MODULE Spec2Model ----
(***************************************************************************)
(* A model of src/src/cachemethod.py: the closure state of                 *)
(* _lru_cachemthod_wrapper (misses, hits, full, cache, root and the        *)
(* circular list of nodes, the lock), the seed identity strategy           *)
(* (_marshall_seed, _make_seed, _make_cache_key_seed) and the key builder  *)
(* (_hash_args_kwargs).  Several threads call cache_wrapper; every access  *)
(* to the dict `cache` is one step, so the unlocked write of line 151 can  *)
(* fall between the dict accesses of another thread's locked section.      *)
(* The weak-handle strategy (_marshall_weakref, _make_cache_key_weakref)   *)
(* runs on the same store, with instances that are created and destroyed;  *)
(* a second cached method of the class has a used-seed set and a lock of   *)
(* its own and shares the instances' seed attribute.                       *)
(***************************************************************************)
EXTENDS Integers, Sequences, FiniteSets, TLC

(* ------------------------------ bounds --------------------------------- *)
NumThreads == 2
NumInsts == 2
\* the millisecond clock advances freely from 0 to MaxClock
MaxClock == 1
\* calls of cache_wrapper started in one behaviour, by several threads
MaxCalls == 3
\* calls of cache_wrapper started in one behaviour, by a single thread
MaxSeqCalls == 4
\* the largest positive maxsize a cache is decorated with
MaxMaxsize == 2

Threads == 1..NumThreads
Insts == 1..NumInsts

(* --------------------------- program values ---------------------------- *)
\* Python's None, for a node reference, a key, a result, a seed and maxsize.
\* Node ids are >= 1, keys and results are > 0 and seeds are >= 0.
None == -1
\* _PREV, _NEXT, _KEY, _RESULT = 0, 1, 2, 3 index a node (a Python list);
\* TLA+ sequences count from 1.
PREV == 1
NEXT == 2
KEY == 3
RESULT == 4

VARIABLES
  maxsize,     \* the decorator's maxsize: None, 0 or 1..MaxMaxsize
  misses, hits, full,
  cache,       \* the dict: a function from the keys present to a node id or None
  root,        \* the node id `root` is bound to
  nodes,       \* the heap of list nodes: node id -> <<prev, next, key, result>>
  lock,        \* None, or the thread inside a `with lock:` block
  used_seeds,  \* used_seeds_set of _base_seed
  seed_attr,   \* instance -> its __cache_seed__ attribute, None when absent
  now,         \* round(time.time() * 1000)
  pc,          \* thread -> its place in cache_wrapper
  inst, args, kwargs,   \* thread -> __self__, *args, **kwargs of its call
  key, node, result, oldkey,   \* thread -> the locals of cache_wrapper
  ret,         \* thread -> what its call handed to the caller
  callers,     \* the threads that call the cached method
  calls_left,  \* calls that may still start
  lru,         \* history: the keys put and not evicted or cleared since,
               \* the least recently accessed first
  visible,     \* history: the keys of the puts whose locked section has ended,
               \* not evicted or cleared since
  inputs,      \* the arguments the callers pass
  addr,        \* instance -> 0 before it is created, its address a >= 1 while
               \* it lives, -a once it is destroyed
  used_seeds2, \* used_seeds_set of the class's second cached method
  lock2        \* the lock of the second cached method: None or its holder

vars == <<maxsize, misses, hits, full, cache, root, nodes, lock, used_seeds,
          seed_attr, now, pc, inst, args, kwargs, key, node, result, oldkey,
          ret, callers, calls_left, lru, visible, inputs, addr, used_seeds2,
          lock2>>

\* what no step of this cache changes: its decoration, its callers and what
\* they pass, the instances' lifetimes and the second cache's seeds and lock
fixed_vars == <<maxsize, callers, inputs, addr, used_seeds2, lock2>>

store_vars == <<misses, hits, full, cache, root, nodes>>
seed_vars == <<used_seeds, seed_attr>>
local_vars == <<inst, args, kwargs, key, node, result, oldkey>>

(* ------------------------------ hashing -------------------------------- *)
\* hash() of an int: CPython keeps -1 for errors, so hash(-1) is -2.
HashInt(n) == IF n = -1 THEN -2 ELSE n

\* hash() of a keyword name; str hashes are fixed within one process.
HashStr(s) == CASE s = "x" -> 30 [] s = "y" -> 40 [] OTHER -> 50

\* hash() of a tuple, from the hashes of its items.  CPython mixes the item
\* hashes in order with multiplications; this fold is likewise sensitive to
\* order and is one-to-one on the item hashes used here.
RECURSIVE HashTupleFrom(_, _)
HashTupleFrom(acc, hs) ==
  IF hs = <<>> THEN acc
  ELSE HashTupleFrom(acc * 100 + Head(hs), Tail(hs))

HashTuple(hs) == HashTupleFrom(1, hs)

\* hash(args): args is a tuple of ints.
HashArgs(a) == HashTuple([i \in 1..Len(a) |-> HashInt(a[i])])

\* hash of one kwargs.items() element, a (name, value) tuple.
HashItem(it) == HashTuple(<<HashStr(it[1]), HashInt(it[2])>>)

\* sum(map(hash, kwargs.items())), in the order the keywords were passed.
RECURSIVE SumItemHashes(_)
SumItemHashes(kw) ==
  IF kw = <<>> THEN 0 ELSE HashItem(Head(kw)) + SumItemHashes(Tail(kw))

\* mutant: the keyword items hashed as one tuple, in the order they were passed
HashKwargsAsTuple(a, kw) ==
  HashArgs(a) + HashTuple([i \in 1..Len(kw) |-> HashItem(kw[i])])

\* line 21
_hash_args_kwargs(a, kw) == HashArgs(a) + SumItemHashes(kw)

_make_cache_key_seed(seed, a, kw) == seed + _hash_args_kwargs(a, kw)


(* ------------------------- the wrapped method -------------------------- *)
\* The inputs of a call: positional ints and keyword (name, value) pairs in
\* the order they were passed.
CallInputs ==
  { [args |-> <<-1>>, kwargs |-> <<>>],
    [args |-> <<-2>>, kwargs |-> <<>>],
    [args |-> <<1>>, kwargs |-> <<>>],
    [args |-> <<5>>, kwargs |-> <<>>] }

\* hash(args) raises TypeError when an argument is unhashable; the argument 9
\* stands for a list
Unhashable(a, kw) == a = <<9>>

\* the inputs of CallInputs and a call that passes a list
ListInputs == CallInputs \cup { [args |-> <<9>>, kwargs |-> <<>>] }

\* Keyword lists for the key builder: every order of every choice of values
\* for a subset of the names x, y.
KwNames == {"x", "y"}
KwValues == {1, 2}
KwItems == KwNames \X KwValues
KwLists ==
  {<<>>} \cup { <<it>> : it \in KwItems }
         \cup { <<a, b>> : <<a, b>> \in { p \in KwItems \X KwItems : p[1][1] # p[2][1] } }
KeyArgs == {<<>>, <<1>>}

RECURSIVE SumArgs(_)
SumArgs(a) == IF a = <<>> THEN 0 ELSE Head(a) + SumArgs(Tail(a))

RECURSIVE SumValues(_)
SumValues(kw) == IF kw = <<>> THEN 0 ELSE Head(kw)[2] + SumValues(Tail(kw))

\* `func`, the decorated method: any deterministic method will do.  This one
\* raises on the argument 5 and otherwise yields a value that tells apart the
\* instances and the argument values used here (never None); it reads its
\* keywords as a dict, so their order does not change its value.
FuncRaises(a, kw) == a = <<5>>

WrappedFunc(i, a, kw) == 1000 * i + 10 * (SumArgs(a) + 5) + SumValues(kw)

(* ------------------------- the dict and the list ----------------------- *)
EmptyDict == [k \in {} |-> None]

\* cache[k] = v
SetItem(c, k, v) == [x \in (DOMAIN c) \cup {k} |-> IF x = k THEN v ELSE c[x]]

\* del cache[k], for a key that is present
DelItem(c, k) == [x \in (DOMAIN c) \ {k} |-> c[x]]

\* cache.get(k)
DictGet(c, k) == IF k \in DOMAIN c THEN c[k] ELSE None

\* n[f] = v on the heap h
SetField(h, n, f, v) == [h EXCEPT ![n][f] = v]

\* lines 106-117: unlink the node n and link it before the root r, each
\* assignment in the order the code makes it
MoveToLast(h, r, n) ==
  LET prev == h[n][PREV]
      next_ == h[n][NEXT]
      h1 == SetField(h, prev, NEXT, next_)
      h2 == SetField(h1, next_, PREV, prev)
      last == h2[r][PREV]
      h3 == SetField(h2, last, NEXT, n)
      h4 == SetField(h3, r, PREV, n)
      h5 == SetField(h4, n, PREV, last)
  IN SetField(h5, n, NEXT, r)

\* lines 132-134: the old root takes the new key and result
FillRoot(h, r, k, res) == SetField(SetField(h, r, KEY, k), r, RESULT, res)

\* line 144, on the node that became the root
ClearNode(h, r) == SetField(SetField(h, r, KEY, None), r, RESULT, None)

\* lines 147-149, the list part: a new node linked before the root r
AppendNode(h, r, k, res) ==
  LET last == h[r][PREV]
      n == Len(h) + 1
      h1 == Append(h, <<last, r, k, res>>)
      h2 == SetField(h1, last, NEXT, n)
  IN SetField(h2, r, PREV, n)

\* line 150
IsFull(c, m) == Cardinality(DOMAIN c) >= m

(* ------------------------- the recency history ------------------------ *)
\* the sequence s without the key k
Without(s, k) == SelectSeq(s, LAMBDA x : x # k)

\* the key k becomes the most recently accessed
Touch(s, k) == Append(Without(s, k), k)

(* ----------------------------- outcomes -------------------------------- *)
NoRet == [kind |-> "none", val |-> None, err |-> ""]
Returned(v) == [kind |-> "return", val |-> v, err |-> ""]
Raised(e) == [kind |-> "raise", val |-> None, err |-> e]

(* ------------------------------- Init ---------------------------------- *)
\* the state right after decoration (lines 80-94), for a maxsize in `sizes`,
\* with the threads `who` about to make up to `n` calls
InitWith(sizes, who, n) ==
  /\ maxsize \in sizes
  /\ callers = who
  /\ calls_left = n
  /\ lru = <<>>
  /\ visible = {}
  /\ misses = 0 /\ hits = 0 /\ full = FALSE
  /\ cache = EmptyDict
  /\ root = 1
  /\ nodes = << <<1, 1, None, None>> >>
  /\ lock = None
  /\ key = [t \in Threads |-> None]
  /\ node = [t \in Threads |-> None]
  /\ result = [t \in Threads |-> None]
  /\ oldkey = [t \in Threads |-> None]
  /\ ret = [t \in Threads |-> NoRet]

\* no instance carries a seed yet and no thread is in a call
NoCallYet ==
  /\ used_seeds = {}
  /\ seed_attr = [i \in Insts |-> None]
  /\ now = 0
  /\ pc = [t \in Threads |-> "idle"]
  /\ inst = [t \in Threads |-> None]
  /\ args = [t \in Threads |-> <<>>]
  /\ kwargs = [t \in Threads |-> <<>>]

\* every instance lives, at an address of its own
AllAlive == addr = [i \in Insts |-> i]

\* the class's second cached method has issued no seed
OneCache == used_seeds2 = {} /\ lock2 = None

\* hashable arguments, on instances that live throughout
PlainCalls == inputs = CallInputs /\ AllAlive /\ OneCache

\* a bounded cache called from several threads
Init == InitWith(1..MaxMaxsize, Threads, MaxCalls) /\ NoCallYet /\ PlainCalls

\* a bounded cache called from one thread
SeqInit == InitWith(1..MaxMaxsize, {1}, MaxSeqCalls) /\ NoCallYet /\ PlainCalls

\* maxsize=None and maxsize=0, called from one thread
UnboundedInit == InitWith({None, 0}, {1}, MaxSeqCalls) /\ NoCallYet /\ PlainCalls

\* a bounded cache called from one thread that may pass a list
ListInit ==
  /\ InitWith(1..MaxMaxsize, {1}, MaxCalls) /\ NoCallYet
  /\ inputs = ListInputs /\ AllAlive /\ OneCache

\* A thread leaves cache_wrapper with the outcome r; its caller sees r.
Leave(t, r) ==
  /\ ret' = [ret EXCEPT ![t] = r]
  /\ pc' = [pc EXCEPT ![t] = "done"]

(* ------------------------- the seed strategy --------------------------- *)
\* mutant: _make_seed takes the clock reading without the loop
SeedUnchecked == TRUE

\* _make_seed leaves its loop only on a clock reading not in used_seeds
SeedFree == now \notin used_seeds

\* the same for the second cached method, which has its own used_seeds_set
SeedFree2 == now \notin used_seeds2

\* mutant: the seed is set on the instance and not added to used_seeds
IssueSeedUnrecorded(i) ==
  /\ used_seeds' = used_seeds
  /\ seed_attr' = [seed_attr EXCEPT ![i] = now]

\* lines 49-51: issue the clock reading to the instance i
IssueSeed(i) ==
  /\ used_seeds' = used_seeds \cup {now}
  /\ seed_attr' = [seed_attr EXCEPT ![i] = now]

\* cache_wrapper lines 100-101 with _marshall_seed: thread t starts a call on
\* instance i.  The seed is read or issued under the lock; when the clock
\* reading is taken, the thread stays in _make_seed's loop holding the lock.
Call(t) ==
  /\ pc[t] = "idle"
  /\ t \in callers
  /\ calls_left > 0
  /\ lock = None
  /\ \E i \in Insts, c \in inputs :
       /\ inst' = [inst EXCEPT ![t] = i]
       /\ args' = [args EXCEPT ![t] = c.args]
       /\ kwargs' = [kwargs EXCEPT ![t] = c.kwargs]
       /\ IF seed_attr[i] # None
            THEN /\ pc' = [pc EXCEPT ![t] = "key"]
                 /\ UNCHANGED <<lock, seed_vars>>
            ELSE IF SeedFree
              THEN /\ IssueSeed(i)
                   /\ pc' = [pc EXCEPT ![t] = "key"]
                   /\ UNCHANGED lock
              ELSE /\ lock' = t
                   /\ pc' = [pc EXCEPT ![t] = "seed"]
                   /\ UNCHANGED seed_vars
  /\ calls_left' = calls_left - 1
  /\ UNCHANGED <<fixed_vars, lru, visible, store_vars, now, key, node, result, oldkey, ret>>

\* mutant: _make_seed reads the clock once, before its loop; the reading that
\* sent the thread into the loop stays in used_seeds and the loop never ends
MakeSeedReadsClockOnce(t) ==
  /\ pc[t] = "seed"
  /\ FALSE
  /\ UNCHANGED vars

\* _make_seed's loop ends: the seed is issued and the lock released
MakeSeed(t) ==
  /\ pc[t] = "seed"
  /\ SeedFree
  /\ IssueSeed(inst[t])
  /\ lock' = None
  /\ pc' = [pc EXCEPT ![t] = "key"]
  /\ UNCHANGED <<fixed_vars, lru, visible, store_vars, now, local_vars, ret, calls_left>>

\* line 101: make_key(marshalled_self, args, kwargs); the marshalled self is
\* the seed _marshall_seed returned, which is the instance's attribute.  The
\* TypeError of hash() on an unhashable argument leaves cache_wrapper.
MakeKey(t) ==
  /\ pc[t] = "key"
  /\ IF Unhashable(args[t], kwargs[t])
       THEN /\ Leave(t, Raised("TypeError"))
            /\ UNCHANGED key
       ELSE /\ key' = [key EXCEPT ![t] =
                         _make_cache_key_seed(seed_attr[inst[t]], args[t], kwargs[t])]
            /\ pc' = [pc EXCEPT ![t] = "get"]
            /\ UNCHANGED ret
  /\ UNCHANGED <<fixed_vars, lru, visible, store_vars, lock, seed_vars, now, inst,
                 args, kwargs, node, result, oldkey, calls_left>>

\* the millisecond clock advances: freely up to MaxClock, and beyond it for
\* as long as a thread in _make_seed's loop reads a used seed
Tick ==
  /\ \/ now < MaxClock
     \/ \E t \in Threads : pc[t] = "seed" /\ ~SeedFree
     \/ \E t \in Threads : pc[t] = "seed2" /\ ~SeedFree2
  /\ now' = now + 1
  /\ UNCHANGED <<fixed_vars, lru, visible, store_vars, lock, seed_vars, pc, local_vars, ret, calls_left>>

(* ---------------------------- cache_wrapper ---------------------------- *)
\* lines 103-120, the first `with lock:` block.  cache.get is its only access
\* to the dict.
Get(t) ==
  /\ pc[t] = "get"
  /\ lock = None
  /\ LET n == DictGet(cache, key[t]) IN
       IF n # None
         THEN /\ nodes' = MoveToLast(nodes, root, n)
              /\ lru' = Touch(lru, key[t])
              /\ hits' = hits + 1
              /\ node' = [node EXCEPT ![t] = n]
              /\ Leave(t, Returned(nodes[n][RESULT]))
              /\ UNCHANGED misses
         ELSE /\ misses' = misses + 1
              /\ node' = [node EXCEPT ![t] = None]
              /\ pc' = [pc EXCEPT ![t] = "func"]
              /\ UNCHANGED <<nodes, hits, ret, lru>>
  /\ UNCHANGED <<fixed_vars, visible, full, cache, root, lock, seed_vars, now,
                 inst, args, kwargs, key, result, oldkey, calls_left>>

\* mutant: a failure of the wrapped method is stored like a result
FuncCallStoresFailure(t) ==
  /\ pc[t] = "func"
  /\ IF FuncRaises(args[t], kwargs[t])
       THEN /\ Leave(t, Raised("FuncError"))
            /\ cache' = SetItem(cache, key[t], None)
            /\ UNCHANGED result
       ELSE /\ result' = [result EXCEPT ![t] =
                            WrappedFunc(inst[t], args[t], kwargs[t])]
            /\ pc' = [pc EXCEPT ![t] = "put"]
            /\ UNCHANGED <<ret, cache>>
  /\ UNCHANGED <<fixed_vars, lru, visible, misses, hits, full, root, nodes, lock,
                 seed_vars, now, inst, args, kwargs, key, node, oldkey,
                 calls_left>>

\* line 122: the wrapped method runs with the lock released
FuncCall(t) ==
  /\ pc[t] = "func"
  /\ IF FuncRaises(args[t], kwargs[t])
       THEN /\ Leave(t, Raised("FuncError"))
            /\ UNCHANGED result
       ELSE /\ result' = [result EXCEPT ![t] =
                            WrappedFunc(inst[t], args[t], kwargs[t])]
            /\ pc' = [pc EXCEPT ![t] = "put"]
            /\ UNCHANGED ret
  /\ UNCHANGED <<fixed_vars, lru, visible, store_vars, lock, seed_vars, now, inst, args, kwargs,
                 key, node, oldkey, calls_left>>

\* lines 124-148: the lock is taken, `key in cache` is read and the branch
\* chosen; the list, which only lock holders touch, is relinked.  The dict
\* accesses that follow (lines 145, 149, 150) are steps of their own.
PutCheck(t) ==
  /\ pc[t] = "put"
  /\ lock = None
  /\ IF key[t] \in DOMAIN cache
       THEN /\ pc' = [pc EXCEPT ![t] = "store"]
            /\ UNCHANGED <<lock, nodes, root, node, oldkey>>
       ELSE IF full
         THEN LET filled == FillRoot(nodes, root, key[t], result[t])
                  newroot == filled[root][NEXT]
              IN /\ node' = [node EXCEPT ![t] = root]
                 /\ root' = newroot
                 /\ oldkey' = [oldkey EXCEPT ![t] = filled[newroot][KEY]]
                 /\ nodes' = ClearNode(filled, newroot)
                 /\ lock' = t
                 /\ pc' = [pc EXCEPT ![t] = "put_del"]
         ELSE /\ nodes' = AppendNode(nodes, root, key[t], result[t])
              /\ node' = [node EXCEPT ![t] = Len(nodes) + 1]
              /\ lock' = t
              /\ pc' = [pc EXCEPT ![t] = "put_ins"]
              /\ UNCHANGED <<root, oldkey>>
  /\ UNCHANGED <<fixed_vars, lru, visible, misses, hits, full, cache, seed_vars, now, inst, args,
                 kwargs, key, result, ret, calls_left>>

\* mutant: the KeyError of line 145 leaves cache_wrapper with the lock held
PutDelKeepsLock(t) ==
  /\ pc[t] = "put_del"
  /\ IF oldkey[t] \in DOMAIN cache
       THEN /\ cache' = DelItem(cache, oldkey[t])
            /\ lru' = Without(lru, oldkey[t])
            /\ visible' = (visible \ {oldkey[t]}) \cup {key[t]}
            /\ pc' = [pc EXCEPT ![t] = "store"]
            /\ lock' = None
            /\ UNCHANGED ret
       ELSE /\ Leave(t, Raised("KeyError"))
            /\ UNCHANGED <<cache, lru, visible, lock>>
  /\ UNCHANGED <<fixed_vars, misses, hits, full, root, nodes, seed_vars, now,
                 local_vars, calls_left>>

\* line 145: del cache[oldkey]; a KeyError leaves the `with` block, which
\* releases the lock, and cache_wrapper
PutDel(t) ==
  /\ pc[t] = "put_del"
  /\ IF oldkey[t] \in DOMAIN cache
       THEN /\ cache' = DelItem(cache, oldkey[t])
            /\ lru' = Without(lru, oldkey[t])
            /\ visible' = (visible \ {oldkey[t]}) \cup {key[t]}
            /\ pc' = [pc EXCEPT ![t] = "store"]
            /\ UNCHANGED ret
       ELSE /\ Leave(t, Raised("KeyError"))
            /\ UNCHANGED <<cache, lru, visible>>
  /\ lock' = None
  /\ UNCHANGED <<fixed_vars, misses, hits, full, root, nodes, seed_vars, now,
                 local_vars, calls_left>>

\* line 149, the dict part: cache[key] = node
PutInsert(t) ==
  /\ pc[t] = "put_ins"
  /\ cache' = SetItem(cache, key[t], node[t])
  /\ pc' = [pc EXCEPT ![t] = "put_len"]
  /\ UNCHANGED <<fixed_vars, lru, visible, misses, hits, full, root, nodes, lock, seed_vars, now,
                 local_vars, ret, calls_left>>

\* line 150: full = len(cache) >= maxsize; comparing an int with None raises
\* TypeError
PutLen(t) ==
  /\ pc[t] = "put_len"
  /\ IF maxsize = None
       THEN /\ Leave(t, Raised("TypeError"))
            /\ UNCHANGED <<full, visible>>
       ELSE /\ full' = IsFull(cache, maxsize)
            /\ visible' = visible \cup {key[t]}
            /\ pc' = [pc EXCEPT ![t] = "store"]
            /\ UNCHANGED ret
  /\ lock' = None
  /\ UNCHANGED <<fixed_vars, lru, misses, hits, cache, root, nodes, seed_vars, now,
                 local_vars, calls_left>>

\* lines 151-152, after the `with` block: cache[key] = node, with the lock
\* released, and return result.  `node` is still None when the key was found
\* present at line 125.
Store(t) ==
  /\ pc[t] = "store"
  /\ cache' = SetItem(cache, key[t], node[t])
  /\ lru' = IF node[t] = None THEN lru ELSE Touch(lru, key[t])
  /\ Leave(t, Returned(result[t]))
  /\ UNCHANGED <<fixed_vars, visible, misses, hits, full, root, nodes, lock, seed_vars, now,
                 local_vars, calls_left>>

\* the caller takes the outcome; the call's locals are gone
Return(t) ==
  /\ pc[t] = "done"
  /\ pc' = [pc EXCEPT ![t] = "idle"]
  /\ ret' = [ret EXCEPT ![t] = NoRet]
  /\ inst' = [inst EXCEPT ![t] = None]
  /\ args' = [args EXCEPT ![t] = <<>>]
  /\ kwargs' = [kwargs EXCEPT ![t] = <<>>]
  /\ key' = [key EXCEPT ![t] = None]
  /\ node' = [node EXCEPT ![t] = None]
  /\ result' = [result EXCEPT ![t] = None]
  /\ oldkey' = [oldkey EXCEPT ![t] = None]
  /\ UNCHANGED <<fixed_vars, lru, visible, store_vars, lock, seed_vars, now, calls_left>>

(* ---------------------- cache_info and cache_clear --------------------- *)
\* lines 154-157: the tuple cache_info() returns
cache_info == [misses |-> misses, hits |-> hits, maxsize |-> maxsize, full |-> full]

\* mutant: cache_clear resets the counters and leaves the map
ClearCountersOnly ==
  /\ lock = None
  /\ misses' = 0
  /\ hits' = 0
  /\ UNCHANGED <<fixed_vars, lru, visible, cache, full, root, nodes, lock, seed_vars,
                 now, pc, local_vars, ret, calls_left>>

\* lines 159-165, called by any thread outside a call of cache_wrapper
cache_clear ==
  /\ lock = None
  /\ cache' = EmptyDict
  /\ lru' = <<>>
  /\ visible' = {}
  /\ misses' = 0
  /\ hits' = 0
  /\ UNCHANGED <<fixed_vars, full, root, nodes, lock, seed_vars, now, pc,
                 local_vars, ret, calls_left>>

(* ------------------------------ the system ----------------------------- *)
Next ==
  \/ \E t \in Threads : Call(t)
  \/ \E t \in Threads : MakeSeed(t)
  \/ \E t \in Threads : MakeKey(t)
  \/ \E t \in Threads : Get(t)
  \/ \E t \in Threads : FuncCall(t)
  \/ \E t \in Threads : PutCheck(t)
  \/ \E t \in Threads : PutDel(t)
  \/ \E t \in Threads : PutInsert(t)
  \/ \E t \in Threads : PutLen(t)
  \/ \E t \in Threads : Store(t)
  \/ \E t \in Threads : Return(t)
  \/ cache_clear
  \/ Tick

Spec == Init /\ [][Next]_vars

SeqSpec == SeqInit /\ [][Next]_vars

UnboundedSpec == UnboundedInit /\ [][Next]_vars

ListSpec == ListInit /\ [][Next]_vars

(* ------------------------- the identity strategy ----------------------- *)
\* Lines 100-101 alone: each thread's call up to its built key.  No step of
\* the store reads or writes the seeds or the clock.
SeedNext ==
  \/ \E t \in Threads : Call(t)
  \/ \E t \in Threads : MakeSeed(t)
  \/ \E t \in Threads : MakeKey(t)
  \/ Tick

SeedSpec == Init /\ [][SeedNext]_vars

\* one argument list: the arguments play no part in the issuing of seeds
FairSeedInit ==
  /\ InitWith(1..MaxMaxsize, Threads, MaxCalls) /\ NoCallYet
  /\ inputs = { [args |-> <<1>>, kwargs |-> <<>>] }
  /\ AllAlive /\ OneCache

\* the clock keeps advancing and a thread in _make_seed's loop keeps running
FairSeedSpec ==
  /\ FairSeedInit /\ [][SeedNext]_vars
  /\ WF_vars(Tick)
  /\ \A t \in Threads : WF_vars(MakeSeed(t))

(* ------------------ a second cached method of the class --------------- *)
\* lines 49-51 in the second cache: its own used_seeds_set, and the one
\* __cache_seed__ attribute the instance has
IssueSeed2(i) ==
  /\ used_seeds2' = used_seeds2 \cup {now}
  /\ seed_attr' = [seed_attr EXCEPT ![i] = now]

\* line 100 of the second method's cache_wrapper: _marshall_seed under that
\* cache's lock.  What follows in that call works on the second cache's own
\* map and list, which no claim reads: the call is over once it has its seed.
Call2(t) ==
  /\ pc[t] = "idle"
  /\ t \in callers
  /\ calls_left > 0
  /\ lock2 = None
  /\ \E i \in Insts :
       /\ inst' = [inst EXCEPT ![t] = i]
       /\ IF seed_attr[i] # None
            THEN /\ pc' = [pc EXCEPT ![t] = "done"]
                 /\ UNCHANGED <<lock2, used_seeds2, seed_attr>>
            ELSE IF SeedFree2
              THEN /\ IssueSeed2(i)
                   /\ pc' = [pc EXCEPT ![t] = "done"]
                   /\ UNCHANGED lock2
              ELSE /\ lock2' = t
                   /\ pc' = [pc EXCEPT ![t] = "seed2"]
                   /\ UNCHANGED <<used_seeds2, seed_attr>>
  /\ calls_left' = calls_left - 1
  /\ UNCHANGED <<maxsize, callers, inputs, addr, lru, visible, store_vars, lock,
                 used_seeds, now, args, kwargs, key, node, result, oldkey, ret>>

\* _make_seed's loop ends in the second cache
MakeSeed2(t) ==
  /\ pc[t] = "seed2"
  /\ SeedFree2
  /\ IssueSeed2(inst[t])
  /\ lock2' = None
  /\ pc' = [pc EXCEPT ![t] = "done"]
  /\ UNCHANGED <<maxsize, callers, inputs, addr, lru, visible, store_vars, lock,
                 used_seeds, now, local_vars, ret, calls_left>>

\* calls of both cached methods, those of the first up to the built key
TwoNext ==
  \/ \E t \in Threads : Call(t)
  \/ \E t \in Threads : MakeSeed(t)
  \/ \E t \in Threads : MakeKey(t)
  \/ \E t \in Threads : Call2(t)
  \/ \E t \in Threads : MakeSeed2(t)
  \/ \E t \in Threads : Return(t)
  \/ Tick

TwoSpec == Init /\ [][TwoNext]_vars

(* ----------------------- the weak-handle strategy ---------------------- *)
\* mutant: the handle is the instance's address, id(__self__)
MarshallAddress(i) == IF addr[i] > 0 THEN addr[i] ELSE -addr[i]

\* line 58: weakref.ref(__self__).  Two weak references are equal exactly when
\* they refer to the same instance (compared by referent while it lives, by
\* identity once it is dead, and an instance has one such reference), so the
\* reference to instance i is written i.
_marshall_weakref(i) == i

\* line 34: the tuple (__weak_self__, hash), equal to another such tuple
\* exactly when both parts are equal; the hashes used here are below 1000
_make_cache_key_weakref(weak_self, a, kw) ==
  weak_self * 1000 + _hash_args_kwargs(a, kw)

\* an instance is constructed, at an address no living instance has
Create(i) ==
  /\ addr[i] = 0
  /\ \E a \in 1..NumInsts :
       /\ \A j \in Insts : addr[j] # a
       /\ addr' = [addr EXCEPT ![i] = a]
  /\ UNCHANGED <<maxsize, callers, inputs, used_seeds2, lock2, lru, visible,
                 store_vars, lock, seed_vars, now, pc, local_vars, ret,
                 calls_left>>

\* an instance no call is using is destroyed; the cache holds it weakly
Destroy(i) ==
  /\ addr[i] > 0
  /\ \A t \in Threads : inst[t] # i
  /\ addr' = [addr EXCEPT ![i] = -addr[i]]
  /\ UNCHANGED <<maxsize, callers, inputs, used_seeds2, lock2, lru, visible,
                 store_vars, lock, seed_vars, now, pc, local_vars, ret,
                 calls_left>>

\* line 100 with _marshall_weakref, which never takes the lock: thread t
\* starts a call on a living instance
WeakCall(t) ==
  /\ pc[t] = "idle"
  /\ t \in callers
  /\ calls_left > 0
  /\ \E i \in Insts, c \in inputs :
       /\ addr[i] > 0
       /\ inst' = [inst EXCEPT ![t] = i]
       /\ args' = [args EXCEPT ![t] = c.args]
       /\ kwargs' = [kwargs EXCEPT ![t] = c.kwargs]
  /\ pc' = [pc EXCEPT ![t] = "key"]
  /\ calls_left' = calls_left - 1
  /\ UNCHANGED <<fixed_vars, lru, visible, store_vars, lock, seed_vars, now, key,
                 node, result, oldkey, ret>>

\* line 101 with _make_cache_key_weakref
WeakMakeKey(t) ==
  /\ pc[t] = "key"
  /\ IF Unhashable(args[t], kwargs[t])
       THEN /\ Leave(t, Raised("TypeError"))
            /\ UNCHANGED key
       ELSE /\ key' = [key EXCEPT ![t] =
                         _make_cache_key_weakref(_marshall_weakref(inst[t]),
                                                 args[t], kwargs[t])]
            /\ pc' = [pc EXCEPT ![t] = "get"]
            /\ UNCHANGED ret
  /\ UNCHANGED <<fixed_vars, lru, visible, store_vars, lock, seed_vars, now, inst,
                 args, kwargs, node, result, oldkey, calls_left>>

\* a bounded cache under the weak-handle strategy, called from one thread; no
\* instance exists yet
WeakInit ==
  /\ InitWith(1..MaxMaxsize, {1}, MaxCalls) /\ NoCallYet
  /\ inputs = CallInputs
  /\ addr = [i \in Insts |-> 0]
  /\ OneCache

WeakNext ==
  \/ \E i \in Insts : Create(i)
  \/ \E i \in Insts : Destroy(i)
  \/ \E t \in Threads : WeakCall(t)
  \/ \E t \in Threads : WeakMakeKey(t)
  \/ \E t \in Threads : Get(t)
  \/ \E t \in Threads : FuncCall(t)
  \/ \E t \in Threads : PutCheck(t)
  \/ \E t \in Threads : PutDel(t)
  \/ \E t \in Threads : PutInsert(t)
  \/ \E t \in Threads : PutLen(t)
  \/ \E t \in Threads : Store(t)
  \/ \E t \in Threads : Return(t)
  \/ cache_clear

WeakSpec == WeakInit /\ [][WeakNext]_vars

(* --------------------------- the key builder --------------------------- *)
\* Every thread is at line 101 with inputs of its own, on instances that
\* carry the seeds 0, 1, ... issued earlier.
KeyInit ==
  /\ InitWith({MaxMaxsize}, Threads, 0)
  /\ PlainCalls
  /\ seed_attr = [i \in Insts |-> i - 1]
  /\ used_seeds = 0..(NumInsts - 1)
  /\ now = NumInsts - 1
  /\ pc = [t \in Threads |-> "key"]
  /\ inst \in [Threads -> Insts]
  /\ args \in [Threads -> KeyArgs]
  /\ kwargs \in [Threads -> KwLists]

KeyNext == \E t \in Threads : MakeKey(t)

KeySpec == KeyInit /\ [][KeyNext]_vars

(* ------------------------------- claims -------------------------------- *)
\* no call of cache_wrapper is in progress
Quiescent == \A t \in Threads : pc[t] = "idle"

\* the keys in the recency history
Remembered == { lru[i] : i \in 1..Len(lru) }

\* thread t takes the step that is its lookup (lines 103-120)
Looks(t) == pc[t] = "get" /\ pc'[t] # "get"

\* the step is counted as a hit: the stored result is handed back and the
\* wrapped method is not run
CountedHit(t) == hits' = hits + 1 /\ misses' = misses /\ pc'[t] = "done"

\* the step is counted as a miss: the wrapped method is run next
CountedMiss(t) == misses' = misses + 1 /\ hits' = hits /\ pc'[t] = "func"

\* C1: whenever a call has returned a value to its caller, that value is the
\* one the wrapped method yields for the call's instance and arguments.
C1_ReturnsWrappedValue ==
  \A t \in Threads :
    (pc[t] = "done" /\ ret[t].kind = "return")
      => ret[t].val = WrappedFunc(inst[t], args[t], kwargs[t])

\* C2: a lookup of a key that is not in the map is counted as a miss, and a
\* lookup of a key that an earlier call has put, and that was neither evicted
\* nor cleared since, is counted as a hit and does not run the wrapped method.
C2_MissThenHit ==
  [][\A t \in Threads :
       /\ (Looks(t) /\ key[t] \notin DOMAIN cache) => CountedMiss(t)
       /\ (Looks(t) /\ key[t] \in Remembered) => CountedHit(t)]_vars

\* C3: on a full cache, a put of a new key that evicts removes from the map
\* exactly the least recently accessed key, and no other key.
C3_EvictsLeastRecent ==
  [][\A t \in Threads :
       (pc[t] = "put_del" /\ pc'[t] = "store")
         => /\ lru # <<>>
            /\ Head(lru) \in DOMAIN cache
            /\ cache' = DelItem(cache, Head(lru))]_vars

\* C4: a cache decorated with maxsize = N >= 1 never holds more than N map
\* entries.
C4_AtMostMaxsize ==
  (maxsize # None /\ maxsize >= 1) => Cardinality(DOMAIN cache) <= maxsize

\* C5: a cache_clear() made while no call is in progress leaves misses = 0
\* and hits = 0 and none of the keys it found in the map; a key enters the map
\* again only through a call for that key that is past its lookup; and the
\* lookup of a key that is not in the map is counted as a miss, after which the
\* wrapped method runs.
C5_ClearResets ==
  [][/\ (cache_clear /\ Quiescent)
          => /\ cache_info'.misses = 0
             /\ cache_info'.hits = 0
             /\ \A k \in DOMAIN cache : DictGet(cache', k) = None
     /\ \A k \in (DOMAIN cache') \ (DOMAIN cache) :
          \E t \in Threads : key[t] = k /\ pc[t] \in {"put_ins", "store"}
     /\ \A t \in Threads :
          (Looks(t) /\ DictGet(cache, key[t]) = None) => CountedMiss(t)]_vars

\* a call missed on a key that an earlier call had stored (the list still
\* holds it) and that cache_clear() removed; the counters restarted from 0
C5_Witness ==
  \E t \in Threads :
    /\ pc[t] = "func"
    /\ \A u \in Threads \ {t} : pc[u] = "idle"
    /\ cache = EmptyDict /\ lru = <<>>
    /\ misses = 1 /\ hits = 0
    /\ \E n \in 1..Len(nodes) : nodes[n][KEY] = key[t]

\* C6: with maxsize None or 0 the cache is unbounded: full is never true, no
\* put takes the eviction path, and no call fails in the cache's own code.
C6_UnboundedNeverFull ==
  (maxsize = None \/ maxsize = 0)
    => /\ ~cache_info.full
       /\ \A t \in Threads :
            /\ pc[t] # "put_del"
            /\ ret[t].kind = "raise" => ret[t].err = "FuncError"

\* C7: when the wrapped method raises, the call ends with that failure and the
\* step changes nothing of the store; the lookup before it counted one miss and
\* no hit and changed nothing else; the steps of such a call before the lookup
\* change nothing of the store.
C7_FailedCallNotCached ==
  [][\A t \in Threads :
       /\ (pc[t] = "func" /\ pc'[t] # "func" /\ FuncRaises(args[t], kwargs[t]))
            => /\ pc'[t] = "done" /\ ret'[t] = Raised("FuncError")
               /\ UNCHANGED store_vars
       /\ (Looks(t) /\ pc'[t] = "func")
            => /\ misses' = misses + 1 /\ hits' = hits
               /\ UNCHANGED <<full, cache, root, nodes>>
       /\ (pc[t] # pc'[t] /\ pc'[t] \in {"seed", "key", "get"})
            => UNCHANGED store_vars]_vars

\* a call ended with the wrapped method's failure while the map holds an entry
C7_Witness ==
  \E t \in Threads :
    /\ pc[t] = "done" /\ ret[t] = Raised("FuncError")
    /\ misses >= 1
    /\ cache # EmptyDict

\* C8: a put that found its key present (node is still None at line 151)
\* leaves the map and the list as they were and returns normally.
C8_SecondPutKeepsEntry ==
  [][\A t \in Threads :
       (pc[t] = "store" /\ node[t] = None /\ pc'[t] # "store")
         => /\ cache' = cache /\ nodes' = nodes /\ root' = root
            /\ ret'[t].kind = "return"]_vars

SamePairs(kw1, kw2) ==
  /\ Len(kw1) = Len(kw2)
  /\ { kw1[i] : i \in 1..Len(kw1) } = { kw2[i] : i \in 1..Len(kw2) }

\* C10, as claimed: there are two calls on the same instance with the same
\* positional arguments and the same keyword pairs in a different order that
\* get different keys.
C10_KeywordOrderChangesKey ==
  \E i \in Insts, a \in KeyArgs, kw1 \in KwLists, kw2 \in KwLists :
    /\ seed_attr[i] # None
    /\ SamePairs(kw1, kw2)
    /\ _make_cache_key_seed(seed_attr[i], a, kw1)
         # _make_cache_key_seed(seed_attr[i], a, kw2)

\* C10, amended: two calls on the same instance with the same positional
\* arguments and the same keyword pairs get the same key, whatever the order
\* of the keywords.
C10_KeywordOrderKeepsKey ==
  \A t, u \in Threads :
    (pc[t] = "get" /\ pc[u] = "get" /\ inst[t] = inst[u] /\ args[t] = args[u]
       /\ SamePairs(kwargs[t], kwargs[u]))
      => key[t] = key[u]

\* two keys built for the same instance and two keywords passed in the two
\* orders
C10_Witness ==
  \E t, u \in Threads :
    /\ pc[t] = "get" /\ pc[u] = "get" /\ inst[t] = inst[u] /\ args[t] = args[u]
    /\ Len(kwargs[t]) = 2 /\ kwargs[t] # kwargs[u]
    /\ SamePairs(kwargs[t], kwargs[u])

\* the instance whose call computed the value v of WrappedFunc
ComputedFor(v) == v \div 1000

\* the map entry of key k was stored by an instance that is destroyed
Stale(k) ==
  /\ k \in DOMAIN cache
  /\ cache[k] # None
  /\ nodes[cache[k]][RESULT] # None
  /\ addr[ComputedFor(nodes[cache[k]][RESULT])] < 0

C12_UnhashableChangesNothing ==
  [][\A t \in Threads :
       (pc[t] \in {"idle", "seed", "key"} /\ pc'[t] # pc[t]
          /\ Unhashable(args'[t], kwargs'[t]))
         => /\ UNCHANGED <<store_vars, lru, seed_vars>>
            /\ pc[t] = "key" => ret'[t] = Raised("TypeError")]_vars

\* the nodes of the list after n up to the root, in list order
RECURSIVE RingFrom(_, _)
RingFrom(n, acc) ==
  IF n = root \/ Len(acc) > Len(nodes) THEN acc
  ELSE RingFrom(nodes[n][NEXT], Append(acc, n))

\* the nodes of the recency ordering, the oldest first
RingNodes == RingFrom(nodes[root][NEXT], <<>>)

\* no thread is between the start of a put's locked section and line 151
NoPutInProgress ==
  \A t \in Threads : pc[t] \notin {"put_del", "put_ins", "put_len", "store"}

\* C13: whenever no store operation is in progress, the keys held by the nodes
\* of the recency ordering are the keys of the map, no two nodes hold the same
\* key, and the map points each key at its node.
C13_ListMatchesMap ==
  (lock = None /\ NoPutInProgress)
    => /\ { nodes[RingNodes[p]][KEY] : p \in 1..Len(RingNodes) } = DOMAIN cache
       /\ \A p, q \in 1..Len(RingNodes) :
            p # q => nodes[RingNodes[p]][KEY] # nodes[RingNodes[q]][KEY]
       /\ \A p \in 1..Len(RingNodes) :
            DictGet(cache, nodes[RingNodes[p]][KEY]) = RingNodes[p]

\* C14: for a bounded cache, whenever no call is in progress, the full flag
\* that cache_info() reports is true exactly when the map holds maxsize
\* entries.
C14_FullIffAtMaxsize ==
  (maxsize # None /\ maxsize >= 1 /\ Quiescent)
    => (cache_info.full <=> Cardinality(DOMAIN cache) = maxsize)

\* C15: while a thread holds the lock, no step of another thread changes the
\* map, the list, the counters or the full flag; and a lookup of a key whose
\* put has ended its locked section, and that was neither evicted nor cleared
\* since, finds the entry and is counted as a hit.
C15_PutVisibleUnderLock ==
  [][/\ \A u \in Threads :
          (lock = u /\ store_vars' # store_vars) => pc'[u] # pc[u]
     /\ \A t \in Threads :
          (Looks(t) /\ key[t] \in visible)
            => DictGet(cache, key[t]) # None /\ CountedHit(t)]_vars

\* C16: a thread holds the lock only in _make_seed's loop and between the
\* start and the end of a put's locked section: never while it runs the
\* wrapped method, and never once its call has returned or raised.
C16_LockOnlyInLockedSections ==
  \A t \in Threads :
    /\ pc[t] \in {"idle", "key", "get", "func", "put", "store", "done"}
         => lock # t
    /\ lock = t => pc[t] \in {"seed", "put_del", "put_ins", "put_len"}

\* a call has raised from inside a locked section (the KeyError of line 145)
\* while another thread runs the wrapped method, and the lock is free
C16_Witness ==
  \E t, u \in Threads :
    /\ pc[t] = "done" /\ ret[t] = Raised("KeyError")
    /\ pc[u] = "func"
    /\ lock = None

\* C17: an instance that carries a seed keeps it; no two instances carry the
\* same seed; and every seed an instance carries is in the cache's set of used
\* seeds.
C17_SeedsPairwiseDistinct ==
  [][/\ \A i \in Insts : seed_attr[i] # None => seed_attr'[i] = seed_attr[i]
     /\ \A i, j \in Insts :
          (i # j /\ seed_attr'[i] # None /\ seed_attr'[j] # None)
            => seed_attr'[i] # seed_attr'[j]
     /\ \A i \in Insts : seed_attr'[i] # None => seed_attr'[i] \in used_seeds']_vars

\* a first call waits in _make_seed's loop because another instance was issued
\* the present clock reading
C17_Witness ==
  \E t \in Threads, j \in Insts :
    /\ pc[t] = "seed" /\ lock = t
    /\ seed_attr[inst[t]] = None
    /\ j # inst[t] /\ seed_attr[j] = now

\* C18: a first call that waits in _make_seed's loop, holding the lock,
\* eventually has its seed and has released the lock.
C18_SeedLoopEnds ==
  \A t \in Threads :
    (pc[t] = "seed") ~> (pc[t] = "key" /\ lock = None /\ seed_attr[inst[t]] # None)

\* a first call left _make_seed's loop with a reading past MaxClock: it had
\* asked for a seed in a tick whose reading was used
C18_Witness ==
  \E t \in Threads :
    /\ pc[t] = "key" /\ seed_attr[inst[t]] > MaxClock
    /\ lock = None

\* C19: for a bounded cache and hashable arguments, a call raises only what
\* the wrapped method raises: nothing the cache's own bookkeeping does fails.
C19_BookkeepingNeverRaises ==
  (maxsize # None /\ maxsize >= 1)
    => \A t \in Threads :
         ret[t].kind = "raise"
           => ret[t].err = "FuncError" /\ FuncRaises(args[t], kwargs[t])

\* C20: with two cached methods on one class, no two instances carry the same
\* seed, so two calls of the first method on different instances with the same
\* arguments never look up the same key.
C20_TwoCachesDistinctSeeds ==
  /\ \A i, j \in Insts :
       (i # j /\ seed_attr[i] # None) => seed_attr[i] # seed_attr[j]
  /\ \A t, u \in Threads :
       (pc[t] = "get" /\ pc[u] = "get" /\ inst[t] # inst[u]
          /\ args[t] = args[u] /\ kwargs[t] = kwargs[u])
         => key[t] # key[u]

====
